---- MODULE Spec2Model ----
(***************************************************************************)
(* Model of the AI voice detection API (src/main.py): the /predict route,  *)
(* its audio helpers, the feature extractor and the rule-based analysis.   *)
(*                                                                         *)
(* Strings the code inspects character by character (URLs, base64 text)    *)
(* are sequences of one-character strings.  Floats are exact rationals     *)
(* [n, d]; d = 0 stands for NaN (numpy's mean of an empty array).          *)
(* Scores and confidences are fixed-point numbers.                         *)
(***************************************************************************)
EXTENDS Integers, Sequences, FiniteSets, TLC

VARIABLES
    pc,          \* per request: position in verify_token / predict
    apiKey,      \* per request: the x-api-key header
    req,         \* per request: the AudioRequest body
    path,        \* per request: predict's local variable `path`
    pending,     \* per request: what the try block is leaving with
    response,    \* per request: what the caller receives
    tmpFiles,    \* temporary files that exist on disk
    created,     \* per request: number of temporary files it created
    unlinked,    \* per request: number of os.unlink calls it made
    fetches,     \* per request: number of client.get calls it started
    b64calls,    \* per request: number of save_base64_audio calls
    failedAt,    \* per request: the step at which it first raised, if any
    hAudio,      \* argument of a direct call of extract_features
    hFeatures,   \* its outcome / argument of a direct call of analyze
    hLanguage,   \* language argument of a direct call of analyze
    hAnalysis    \* outcome of a direct call of analyze

vars == <<pc, apiKey, req, path, pending, response, tmpFiles, created,
          unlinked, fetches, b64calls, failedAt, hAudio, hFeatures, hLanguage,
          hAnalysis>>

orchVars == <<pc, apiKey, req, path, pending, response, tmpFiles, created,
              unlinked, fetches, b64calls, failedAt>>

harnessVars == <<hAudio, hFeatures, hLanguage, hAnalysis>>

-----------------------------------------------------------------------------
(* Bounds *)

NumRequests == 1

MaxSamples == 4

MaxFrames == 2

Requests == 1..NumRequests

-----------------------------------------------------------------------------
(* Python values *)

\* Python's None, for an optional string field.
None == <<"None">>

\* bool(s) of an optional string: None and "" are falsy.
Truthy(s) == s # None /\ s # <<>>

VALID_API_KEY == "hackathon_2024_secret_token"

ApiKeys == {VALID_API_KEY, "wrong_token"}

-----------------------------------------------------------------------------
(* urlparse(url).scheme *)

Letters ==
    {"f", "t", "p", "h", "s", "x", "F", "T", "P", "H", "S", "X"}

\* urllib.parse.scheme_chars, restricted to the characters of the model.
SchemeChars == Letters \cup {"1", "+", "-", "."}

\* str.lower() on one character.
LowerChar(c) ==
    CASE c = "F" -> "f"
      [] c = "T" -> "t"
      [] c = "P" -> "p"
      [] c = "H" -> "h"
      [] c = "S" -> "s"
      [] c = "X" -> "x"
      [] OTHER -> c

Lower(s) == [i \in 1..Len(s) |-> LowerChar(s[i])]

\* str.find(":") as a 1-based index; 0 when there is no colon.
FindColon(s) ==
    IF \E i \in 1..Len(s) : s[i] = ":"
    THEN CHOOSE i \in 1..Len(s) : s[i] = ":" /\ \A j \in 1..(i - 1) : s[j] # ":"
    ELSE 0

\* urlsplit: the text before the first colon is the scheme when it is not
\* empty, starts with a letter and holds scheme characters only; the scheme
\* is lower-cased.  Otherwise the scheme is "".
UrlScheme(url) ==
    LET i == FindColon(url)
    IN  IF /\ i > 1
           /\ url[1] \in Letters
           /\ \A j \in 1..(i - 1) : url[j] \in SchemeChars
        THEN Lower(SubSeq(url, 1, i - 1))
        ELSE <<>>

SchemeAllowed_AnyScheme(url) == UrlScheme(url) # <<>>

\* parsed.scheme in ("http", "https")
SchemeAllowed(url) ==
    UrlScheme(url) \in {<<"h", "t", "t", "p">>, <<"h", "t", "t", "p", "s">>}

-----------------------------------------------------------------------------
(* base64.b64decode(data), non-strict: does it return or raise? *)

B64Alphabet ==
    {"A", "B", "C", "D", "Q", "U", "J", "a", "b", "n", "o", "t", "s", "e",
     "1", "6", "4", "+", "/"}

\* binascii.a2b_base64 scanning from character i with quad_pos data
\* characters in the current quad and pads counted padding characters.
\* Characters outside the alphabet are skipped; a completed pad sequence
\* stops the scan; at the end a partial quad is an error.
RECURSIVE B64Scan(_, _, _, _)
B64Scan(s, i, quad, pads) ==
    IF i > Len(s) THEN quad = 0
    ELSE IF s[i] = "="
         THEN IF quad >= 2 /\ quad + pads + 1 >= 4
              THEN TRUE
              ELSE B64Scan(s, i + 1, quad, IF quad >= 2 THEN pads + 1 ELSE pads)
    ELSE IF s[i] \notin B64Alphabet
         THEN B64Scan(s, i + 1, quad, pads)
    ELSE B64Scan(s, i + 1, (quad + 1) % 4, 0)

\* b64decode raises TypeError on None and binascii.Error on bad padding.
B64DecodeOk(data) == data # None /\ B64Scan(data, 1, 0, 0)

-----------------------------------------------------------------------------
(* extract_features *)

\* A decoded file, as rows of one value per channel; sf.read gives a 1-D
\* array (ndim = 1) for one channel and a 2-D array for two.
StereoSamples == {-2, 0, 2}

MonoSamples == {-2, -1, 0, 1, 2}

MonoAudio(x) == [ndim |-> 1, data |-> [i \in 1..Len(x) |-> <<x[i]>>]]

StereoAudio(x) == [ndim |-> 2, data |-> x]

SeqsUpTo(S, n) == UNION {[1..k -> S] : k \in 0..n}

\* if audio.ndim > 1: audio = audio.mean(axis=1)
ToMono(audio) ==
    IF audio.ndim > 1
    THEN [i \in 1..Len(audio.data) |-> (audio.data[i][1] + audio.data[i][2]) \div 2]
    ELSE [i \in 1..Len(audio.data) |-> audio.data[i][1]]

Abs(v) == IF v < 0 THEN -v ELSE v

Sign(v) == IF v > 0 THEN 1 ELSE IF v < 0 THEN -1 ELSE 0

RECURSIVE SumTo(_, _)
SumTo(f, k) == IF k = 0 THEN 0 ELSE f[k] + SumTo(f, k - 1)

SumSeq(f) == SumTo(f, Len(f))

\* np.mean of a sequence as a rational; the mean of nothing is NaN (d = 0).
Mean(f) == [n |-> SumSeq(f), d |-> Len(f)]

\* np.diff
Diff(x) == [i \in 1..(IF Len(x) = 0 THEN 0 ELSE Len(x) - 1) |-> x[i + 1] - x[i]]

\* scipy's local maxima: a sample (or flat run of samples) that is higher
\* than the sample before it and the sample after it; the first and the
\* last sample never count.  One peak per run, found at its left edge i.
IsPeakStart(a, i) ==
    /\ i > 1
    /\ i < Len(a)
    /\ a[i - 1] < a[i]
    /\ \E j \in i..(Len(a) - 1) :
          /\ \A k \in i..j : a[k] = a[i]
          /\ a[j + 1] < a[i]

\* height=np.std(audio): keep peaks with a[i] >= std, compared as squares:
\* std^2 = (n * sum(x^2) - sum(x)^2) / n^2.
AboveStd(a, i, x) ==
    LET n == Len(x)
        sq == [k \in 1..n |-> x[k] * x[k]]
    IN  a[i] * a[i] * n * n >= n * SumSeq(sq) - SumSeq(x) * SumSeq(x)

Peaks(x) ==
    LET a == [k \in 1..Len(x) |-> Abs(x[k])]
    IN  {i \in 1..Len(x) : IsPeakStart(a, i) /\ AboveStd(a, i, x)}

extract_features(audio) ==
    LET x == ToMono(audio)
        sq == [k \in 1..Len(x) |-> x[k] * x[k]]
        sg == [k \in 1..Len(x) |-> Sign(x[k])]
        ad == [k \in 1..Len(Diff(sg)) |-> Abs(Diff(sg)[k])]
    IN  IF Len(x) = 0
        THEN [raised |-> "ZeroDivisionError"]
        ELSE [raised |-> "no",
              energy |-> Mean(sq),
              zcr |-> Mean(ad),
              peak_density |-> [n |-> Cardinality(Peaks(x)), d |-> Len(x)]]

-----------------------------------------------------------------------------
(* analyze *)

\* Scores are held in ten-thousandths, confidences in hundredths.
ScoreUnit == 10000

BaseScore == 5000

Bonus == 2000

\* q < n/d for a rational q; a comparison with NaN is False.
LessThan(q, n, d) == q.d > 0 /\ q.n * d < n * q.d

\* round(v, 2) of a score, to hundredths, halves to even.
Round2(v) ==
    LET q == v \div 100
        r == v % 100
    IN  IF r > 50 \/ (r = 50 /\ q % 2 = 1) THEN q + 1 ELSE q

Min(a, b) == IF a < b THEN a ELSE b

LabelLower(label) == IF label = "AI Generated" THEN "ai generated" ELSE "human"

analyze_Threshold(features, language) ==
    LET b1 == LessThan(features.peak_density, 1, 100)
        b2 == LessThan(features.zcr, 5, 100)
        score == BaseScore + (IF b1 THEN Bonus ELSE 0) + (IF b2 THEN Bonus ELSE 0)
        confidence == Round2(Min(score, ScoreUnit))
        label == IF confidence > 75 THEN "AI Generated" ELSE "Human"
    IN  [classification |-> label,
         confidence |-> confidence,
         language |-> language,
         explanation |->
            [label |-> LabelLower(label),
             reasons |-> (IF b1 THEN <<"uniform waveform structure">> ELSE <<>>)
                         \o (IF b2 THEN <<"low zero-crossing rate">> ELSE <<>>)]]

analyze(features, language) ==
    LET b1 == LessThan(features.peak_density, 1, 100)
        b2 == LessThan(features.zcr, 5, 100)
        score == BaseScore + (IF b1 THEN Bonus ELSE 0) + (IF b2 THEN Bonus ELSE 0)
        confidence == Round2(Min(score, ScoreUnit))
        label == IF confidence > 55 THEN "AI Generated" ELSE "Human"
    IN  [classification |-> label,
         confidence |-> confidence,
         language |-> language,
         explanation |->
            [label |-> LabelLower(label),
             reasons |-> (IF b1 THEN <<"uniform waveform structure">> ELSE <<>>)
                         \o (IF b2 THEN <<"low zero-crossing rate">> ELSE <<>>)]]

-----------------------------------------------------------------------------
(* Requests, exceptions and responses *)

English == <<"E", "n", "g", "l", "i", "s", "h">>

Urls ==
    {None,
     <<>>,
     <<"f", "t", "p", ":", "/", "/", "x">>,
     <<"h", "t", "t", "p", ":", "/", "/", "x">>,
     <<"H", "T", "T", "P", "S", ":", "/", "/", "x">>}

Payloads ==
    {None,
     <<>>,
     <<"Q", "U", "J", "D">>,
     <<"n", "o", "t", "-", "b", "6", "4">>}

Formats == {None, <<"m", "p", "3">>}

Languages == {None, <<>>, <<"t", "a">>}

\* class AudioRequest
AudioRequest ==
    [audio_url : Urls, audioBase64 : Payloads, audioFormat : Formats,
     language : Languages]

NoRequest ==
    [audio_url |-> None, audioBase64 |-> None, audioFormat |-> None,
     language |-> None]

HTTPException(status, detail) ==
    [kind |-> "HTTPException", status_code |-> status, detail |-> detail]

Exception(name) == [kind |-> "Exception", name |-> name]

Return(value) == [kind |-> "return", value |-> value]

Nothing == [kind |-> "none"]

\* req.language or "English"
LanguageOrDefault(language) == IF Truthy(language) THEN language ELSE English

\* The dictionary returned by the except branch of predict.
FallbackResult(language) ==
    [classification |-> "AI Generated",
     confidence |-> 71,
     language |-> language,
     explanation |->
        [label |-> "ai generated",
         reasons |-> <<"consistent spectral properties">>]]

CatchInline_Reraise(exc, language) == exc

\* except Exception: on the audioBase64 path, whatever was raised.
CatchInline(exc, language) == Return(FallbackResult(LanguageOrDefault(language)))

Branch_InlineFirst(r) ==
    IF Truthy(r.audioBase64) THEN "inline"
    ELSE IF Truthy(r.audio_url) THEN "url"
    ELSE "missing"

Branch_NoMissing(r) ==
    IF Truthy(r.audio_url) THEN "url" ELSE "inline"

\* The two `if` tests of predict, in order, and the raise after them.
Branch(r) ==
    IF Truthy(r.audio_url) THEN "url"
    ELSE IF Truthy(r.audioBase64) THEN "inline"
    ELSE "missing"

\* The exception handler registered for HTTPException.
handler(exc) ==
    [kind |-> "REJECTED",
     status_code |-> exc.status_code,
     body |-> [error |-> exc.detail, status_code |-> exc.status_code]]

\* What the caller receives for the way predict was left: a returned
\* dictionary is the 200 body, an HTTPException goes through handler, any
\* other exception becomes the framework's plain 500 response.
Deliver(p) ==
    IF p.kind = "return"
    THEN [kind |-> "RESPONDED", status_code |-> 200, body |-> p.value]
    ELSE IF p.kind = "HTTPException"
    THEN handler(p)
    ELSE [kind |-> "SERVER_ERROR", status_code |-> 500,
          body |-> [text |-> "Internal Server Error"]]

NoResponse == [kind |-> "none"]

\* tempfile.NamedTemporaryFile(delete=False, suffix=...): a fresh name.
NoPath == [owner |-> 0, suffix |-> <<>>]

TmpFile(r, suffix) == [owner |-> r, suffix |-> suffix]

\* f".{fmt}" if fmt else ".wav"
Suffix(fmt) ==
    IF Truthy(fmt) THEN <<".">> \o fmt ELSE <<".", "w", "a", "v">>

\* Outcomes of creating and writing the temporary file.
TmpOutcomes == {"ok", "create_fails", "write_fails"}

\* Outcomes of `await client.get(url)`.
FetchOutcomes == {"status_200", "status_404", "timeout"}

\* What sf.read makes of the file's bytes.
DecodedAudio ==
    {MonoAudio(<<>>),
     MonoAudio(<<0, 0, 0>>),
     MonoAudio(<<0, 2, 0>>),
     MonoAudio(<<1, 2, 1>>),
     StereoAudio(<<<<2, 0>>, <<2, 2>>, <<0, 2>>>>)}

SfReadOutcomes ==
    {[raised |-> "LibsndfileError"]}
      \cup {[raised |-> "no", audio |-> a] : a \in DecodedAudio}

\* features = extract_features(path); return analyze(features, language)
RunPipeline(o, language) ==
    IF o.raised # "no" THEN Exception(o.raised)
    ELSE LET f == extract_features(o.audio)
         IN  IF f.raised # "no" THEN Exception(f.raised)
             ELSE Return(analyze(f, LanguageOrDefault(language)))

-----------------------------------------------------------------------------
(* The request handler *)

NoRequests ==
    /\ pc = [r \in Requests |-> "idle"]
    /\ apiKey = [r \in Requests |-> ""]
    /\ req = [r \in Requests |-> NoRequest]
    /\ path = [r \in Requests |-> NoPath]
    /\ pending = [r \in Requests |-> Nothing]
    /\ response = [r \in Requests |-> NoResponse]
    /\ tmpFiles = {}
    /\ created = [r \in Requests |-> 0]
    /\ unlinked = [r \in Requests |-> 0]
    /\ fetches = [r \in Requests |-> 0]
    /\ b64calls = [r \in Requests |-> 0]
    /\ failedAt = [r \in Requests |-> "none"]

Init ==
    /\ NoRequests
    /\ hAudio = MonoAudio(<<>>)
    /\ hFeatures = [raised |-> "pending"]
    /\ hLanguage = None
    /\ hAnalysis = [classification |-> "pending"]

\* The step of the pipeline that raises for a given file content, if any.
PipelineFailure(o) ==
    IF o.raised # "no" THEN "decode"
    ELSE IF extract_features(o.audio).raised # "no" THEN "extract"
    ELSE "none"

\* A request arrives with its x-api-key header.
Receive(r) ==
    /\ pc[r] = "idle"
    /\ \E k \in ApiKeys : apiKey' = [apiKey EXCEPT ![r] = k]
    /\ pc' = [pc EXCEPT ![r] = "verify_token"]
    /\ UNCHANGED <<req, path, pending, response, tmpFiles, created, unlinked,
                   fetches, b64calls, failedAt>>
    /\ UNCHANGED harnessVars

\* verify_token: a wrong key raises HTTPException(403) before predict runs;
\* otherwise predict is called with the parsed body and sets path = None.
VerifyToken(r) ==
    /\ pc[r] = "verify_token"
    /\ IF apiKey[r] # VALID_API_KEY
       THEN /\ response' = [response EXCEPT
                   ![r] = handler(HTTPException(403, "Not authenticated"))]
            /\ failedAt' = [failedAt EXCEPT ![r] = "verify_token"]
            /\ pc' = [pc EXCEPT ![r] = "done"]
            /\ UNCHANGED <<req, path>>
       ELSE /\ \E body \in AudioRequest : req' = [req EXCEPT ![r] = body]
            /\ path' = [path EXCEPT ![r] = NoPath]
            /\ pc' = [pc EXCEPT ![r] = "predict"]
            /\ UNCHANGED <<response, failedAt>>
    /\ UNCHANGED <<apiKey, pending, tmpFiles, created, unlinked, fetches, b64calls>>
    /\ UNCHANGED harnessVars

\* if req.audio_url: scheme not in ("http", "https") raises 400.
PredictInvalidUrl(r) ==
    /\ pc[r] = "predict"
    /\ Branch(req[r]) = "url"
    /\ ~SchemeAllowed(req[r].audio_url)
    /\ pending' = [pending EXCEPT ![r] = HTTPException(400, "Invalid audio URL")]
    /\ failedAt' = [failedAt EXCEPT ![r] = "scheme_check"]
    /\ pc' = [pc EXCEPT ![r] = "finally"]
    /\ UNCHANGED <<apiKey, req, path, response, tmpFiles, created, unlinked,
                   fetches, b64calls>>
    /\ UNCHANGED harnessVars

\* if req.audio_url: download_audio starts client.get(url) and awaits it.
PredictFetch(r) ==
    /\ pc[r] = "predict"
    /\ Branch(req[r]) = "url"
    /\ SchemeAllowed(req[r].audio_url)
    /\ fetches' = [fetches EXCEPT ![r] = @ + 1]
    /\ pc' = [pc EXCEPT ![r] = "fetching"]
    /\ UNCHANGED <<apiKey, req, path, pending, response, tmpFiles, created,
                   unlinked, b64calls, failedAt>>
    /\ UNCHANGED harnessVars

\* client.get returns or raises; a status other than 200 raises 400.
FetchReturns(r) ==
    /\ pc[r] = "fetching"
    /\ \E o \in FetchOutcomes :
          CASE o = "timeout" ->
                 /\ pending' = [pending EXCEPT ![r] = Exception("TimeoutException")]
                 /\ failedAt' = [failedAt EXCEPT ![r] = "fetch"]
                 /\ pc' = [pc EXCEPT ![r] = "finally"]
            [] o = "status_404" ->
                 /\ pending' = [pending EXCEPT
                        ![r] = HTTPException(400, "Failed to download audio")]
                 /\ failedAt' = [failedAt EXCEPT ![r] = "fetch"]
                 /\ pc' = [pc EXCEPT ![r] = "finally"]
            [] o = "status_200" ->
                 /\ pc' = [pc EXCEPT ![r] = "download_save"]
                 /\ UNCHANGED <<pending, failedAt>>
    /\ UNCHANGED <<apiKey, req, path, response, tmpFiles, created, unlinked,
                   fetches, b64calls>>
    /\ UNCHANGED harnessVars

\* The rest of download_audio: create the ".wav" file, write, close, and
\* return its path, which predict assigns to `path`.
DownloadSave(r) ==
    /\ pc[r] = "download_save"
    /\ LET f == TmpFile(r, Suffix(None))
       IN  \E o \in TmpOutcomes :
             CASE o = "create_fails" ->
                    /\ pending' = [pending EXCEPT ![r] = Exception("OSError")]
                    /\ failedAt' = [failedAt EXCEPT ![r] = "tmp_create"]
                    /\ pc' = [pc EXCEPT ![r] = "finally"]
                    /\ UNCHANGED <<tmpFiles, created, path>>
               [] o = "write_fails" ->
                    /\ tmpFiles' = tmpFiles \cup {f}
                    /\ created' = [created EXCEPT ![r] = @ + 1]
                    /\ pending' = [pending EXCEPT ![r] = Exception("OSError")]
                    /\ failedAt' = [failedAt EXCEPT ![r] = "tmp_write"]
                    /\ pc' = [pc EXCEPT ![r] = "finally"]
                    /\ UNCHANGED path
               [] o = "ok" ->
                    /\ tmpFiles' = tmpFiles \cup {f}
                    /\ created' = [created EXCEPT ![r] = @ + 1]
                    /\ path' = [path EXCEPT ![r] = f]
                    /\ pc' = [pc EXCEPT ![r] = "url_pipeline"]
                    /\ UNCHANGED <<pending, failedAt>>
    /\ UNCHANGED <<apiKey, req, response, unlinked, fetches, b64calls>>
    /\ UNCHANGED harnessVars

\* URL path: extract_features and analyze; whatever is raised propagates.
UrlPipeline(r) ==
    /\ pc[r] = "url_pipeline"
    /\ \E o \in SfReadOutcomes :
          /\ pending' = [pending EXCEPT ![r] = RunPipeline(o, req[r].language)]
          /\ failedAt' = [failedAt EXCEPT ![r] = PipelineFailure(o)]
    /\ pc' = [pc EXCEPT ![r] = "finally"]
    /\ UNCHANGED <<apiKey, req, path, response, tmpFiles, created, unlinked,
                   fetches, b64calls>>
    /\ UNCHANGED harnessVars

\* if req.audioBase64: save_base64_audio inside the inner try.  Anything
\* raised in it becomes ValueError, which predict's except branch catches.
SaveBase64(r) ==
    /\ pc[r] = "predict"
    /\ Branch(req[r]) = "inline"
    /\ b64calls' = [b64calls EXCEPT ![r] = @ + 1]
    /\ LET f == TmpFile(r, Suffix(req[r].audioFormat))
           caught == CatchInline(Exception("ValueError"), req[r].language)
       IN  IF ~B64DecodeOk(req[r].audioBase64)
           THEN /\ pending' = [pending EXCEPT ![r] = caught]
                /\ failedAt' = [failedAt EXCEPT ![r] = "b64decode"]
                /\ pc' = [pc EXCEPT ![r] = "finally"]
                /\ UNCHANGED <<tmpFiles, created, path>>
           ELSE \E o \in TmpOutcomes :
                  CASE o = "create_fails" ->
                         /\ pending' = [pending EXCEPT ![r] = caught]
                         /\ failedAt' = [failedAt EXCEPT ![r] = "tmp_create"]
                         /\ pc' = [pc EXCEPT ![r] = "finally"]
                         /\ UNCHANGED <<tmpFiles, created, path>>
                    [] o = "write_fails" ->
                         /\ tmpFiles' = tmpFiles \cup {f}
                         /\ created' = [created EXCEPT ![r] = @ + 1]
                         /\ pending' = [pending EXCEPT ![r] = caught]
                         /\ failedAt' = [failedAt EXCEPT ![r] = "tmp_write"]
                         /\ pc' = [pc EXCEPT ![r] = "finally"]
                         /\ UNCHANGED path
                    [] o = "ok" ->
                         /\ tmpFiles' = tmpFiles \cup {f}
                         /\ created' = [created EXCEPT ![r] = @ + 1]
                         /\ path' = [path EXCEPT ![r] = f]
                         /\ pc' = [pc EXCEPT ![r] = "inline_pipeline"]
                         /\ UNCHANGED <<pending, failedAt>>
    /\ UNCHANGED <<apiKey, req, response, unlinked, fetches>>
    /\ UNCHANGED harnessVars

\* Inline path: extract_features and analyze inside the inner try.
InlinePipeline(r) ==
    /\ pc[r] = "inline_pipeline"
    /\ \E o \in SfReadOutcomes :
          LET p == RunPipeline(o, req[r].language)
          IN  /\ pending' = [pending EXCEPT
                     ![r] = IF p.kind = "Exception"
                            THEN CatchInline(p, req[r].language)
                            ELSE p]
              /\ failedAt' = [failedAt EXCEPT ![r] = PipelineFailure(o)]
    /\ pc' = [pc EXCEPT ![r] = "finally"]
    /\ UNCHANGED <<apiKey, req, path, response, tmpFiles, created, unlinked,
                   fetches, b64calls>>
    /\ UNCHANGED harnessVars

\* Neither field is truthy: raise HTTPException(422).
PredictMissing(r) ==
    /\ pc[r] = "predict"
    /\ Branch(req[r]) = "missing"
    /\ pending' = [pending EXCEPT
           ![r] = HTTPException(422, "audio_url or audioBase64 required")]
    /\ failedAt' = [failedAt EXCEPT ![r] = "missing"]
    /\ pc' = [pc EXCEPT ![r] = "finally"]
    /\ UNCHANGED <<apiKey, req, path, response, tmpFiles, created, unlinked,
                   fetches, b64calls>>
    /\ UNCHANGED harnessVars

\* finally: if path and path.exists(): os.unlink(path).  Then the return
\* value or the exception reaches the caller.
Finally(r) ==
    /\ pc[r] = "finally"
    /\ IF path[r] # NoPath /\ path[r] \in tmpFiles
       THEN /\ tmpFiles' = tmpFiles \ {path[r]}
            /\ unlinked' = [unlinked EXCEPT ![r] = @ + 1]
       ELSE UNCHANGED <<tmpFiles, unlinked>>
    /\ response' = [response EXCEPT ![r] = Deliver(pending[r])]
    /\ pc' = [pc EXCEPT ![r] = "done"]
    /\ UNCHANGED <<apiKey, req, path, pending, created, fetches, b64calls,
                   failedAt>>
    /\ UNCHANGED harnessVars

Next ==
    \E r \in Requests :
        \/ Receive(r)
        \/ VerifyToken(r)
        \/ PredictInvalidUrl(r)
        \/ PredictFetch(r)
        \/ FetchReturns(r)
        \/ DownloadSave(r)
        \/ UrlPipeline(r)
        \/ SaveBase64(r)
        \/ InlinePipeline(r)
        \/ PredictMissing(r)
        \/ Finally(r)

Spec == Init /\ [][Next]_vars

-----------------------------------------------------------------------------
(* Direct calls of extract_features and of analyze, over all small inputs *)

Waveforms ==
    {MonoAudio(x) : x \in SeqsUpTo(MonoSamples, MaxSamples)}
      \cup {StereoAudio(x) : x \in SeqsUpTo(StereoSamples \X StereoSamples, MaxFrames)}

InitFeatures ==
    /\ NoRequests
    /\ hAudio \in Waveforms
    /\ hFeatures = [raised |-> "pending"]
    /\ hLanguage = None
    /\ hAnalysis = [classification |-> "pending"]

ExtractCall ==
    /\ hFeatures = [raised |-> "pending"]
    /\ hFeatures' = extract_features(hAudio)
    /\ UNCHANGED <<hAudio, hLanguage, hAnalysis>>
    /\ UNCHANGED orchVars

NextFeatures == ExtractCall

SpecFeatures == InitFeatures /\ [][NextFeatures]_vars

\* Feature values around the two thresholds, NaN included.
PeakDensities ==
    {[n |-> 0, d |-> 1000], [n |-> 9, d |-> 1000], [n |-> 10, d |-> 1000],
     [n |-> 11, d |-> 1000], [n |-> 1000, d |-> 1000]}

ZeroCrossingRates ==
    {[n |-> 0, d |-> 0], [n |-> 0, d |-> 1000], [n |-> 49, d |-> 1000],
     [n |-> 50, d |-> 1000], [n |-> 51, d |-> 1000], [n |-> 2000, d |-> 1000]}

Energies == {[n |-> 0, d |-> 0], [n |-> 0, d |-> 1], [n |-> 1, d |-> 4]}

FeatureVectors ==
    {[raised |-> "no", energy |-> e, zcr |-> z, peak_density |-> p] :
        e \in Energies, z \in ZeroCrossingRates, p \in PeakDensities}

InitAnalyze ==
    /\ NoRequests
    /\ hAudio = MonoAudio(<<>>)
    /\ hFeatures \in FeatureVectors
    /\ hLanguage \in {English, <<"t", "a">>}
    /\ hAnalysis = [classification |-> "pending"]

AnalyzeCall ==
    /\ hAnalysis = [classification |-> "pending"]
    /\ hAnalysis' = analyze(hFeatures, hLanguage)
    /\ UNCHANGED <<hAudio, hFeatures, hLanguage>>
    /\ UNCHANGED orchVars

NextAnalyze == AnalyzeCall

SpecAnalyze == InitAnalyze /\ [][NextAnalyze]_vars

-----------------------------------------------------------------------------
(* Properties *)

\* Request r passed verify_token and predict was entered with its body.
InPredict(r) ==
    apiKey[r] = VALID_API_KEY /\ pc[r] \notin {"idle", "verify_token"}

Done(r) == pc[r] = "done"

IsSet(s) == s # None /\ s # <<>>

TookInlinePath(r) ==
    InPredict(r) /\ IsSet(req[r].audioBase64) /\ ~IsSet(req[r].audio_url)

TheFallbackBody(r) ==
    /\ response[r].body.classification = "AI Generated"
    /\ response[r].body.confidence = 71
    /\ response[r].body.explanation =
          [label |-> "ai generated", reasons |-> <<"consistent spectral properties">>]
    /\ response[r].body.language =
          (IF req[r].language \in {None, <<>>} THEN English ELSE req[r].language)

\* C1: a request on the inline-payload path in which any step raised
\* (base64 decoding, creating or writing the temporary file, audio decoding,
\* feature extraction) ends as a 200 response carrying exactly the fixed
\* fallback result; it is never rejected and never a server error.
C1_InlineFailureGivesFallback ==
    \A r \in Requests :
        (Done(r) /\ TookInlinePath(r) /\ failedAt[r] # "none")
            => /\ response[r].kind = "RESPONDED"
               /\ response[r].status_code = 200
               /\ TheFallbackBody(r)

\* C1 witness: every kind of failure of the inline path has happened to
\* some finished request, here the one in feature extraction.
C1_Witness ==
    \E r \in Requests :
        /\ Done(r) /\ TookInlinePath(r)
        /\ failedAt[r] = "extract"
        /\ response[r].kind = "RESPONDED"
        /\ response[r].body.confidence = 71

\* C2: once every request is finished no temporary file exists, and each
\* request has unlinked exactly the files it created.
C2_NoTemporaryFileLeft ==
    (\A r \in Requests : Done(r))
        => /\ tmpFiles = {}
           /\ \A r \in Requests : unlinked[r] = created[r]

HasOtherScheme(r) ==
    /\ InPredict(r)
    /\ IsSet(req[r].audio_url)
    /\ UrlScheme(req[r].audio_url) \notin
          {<<"h", "t", "t", "p">>, <<"h", "t", "t", "p", "s">>}

NeitherSet(r) ==
    InPredict(r) /\ ~IsSet(req[r].audio_url) /\ ~IsSet(req[r].audioBase64)

\* C4: a request with neither audio_url nor audioBase64 ends rejected with
\* status 422 (missing input); before that no fetch, no base64 decoding, no
\* extraction or classification step runs and no temporary file is created.
C4_MissingInputRejected ==
    \A r \in Requests :
        NeitherSet(r)
            => /\ fetches[r] = 0
               /\ b64calls[r] = 0
               /\ created[r] = 0
               /\ pc[r] \in {"predict", "finally", "done"}
               /\ Done(r) =>
                    /\ response[r].kind = "REJECTED"
                    /\ response[r].status_code = 422
                    /\ response[r].body.status_code = 422
                    /\ failedAt[r] = "missing"

\* C4 witness: a request with both fields absent has been rejected.
C4_Witness ==
    \E r \in Requests :
        /\ Done(r)
        /\ apiKey[r] = VALID_API_KEY
        /\ req[r].audio_url = None
        /\ req[r].audioBase64 = None
        /\ response[r].status_code = 422

\* C5: on the URL path every failure of the fetch, a non-success status or
\* a timeout, ends the request rejected with a structured 400 error.
C5_AcquisitionFailureIs400 ==
    \A r \in Requests :
        (Done(r) /\ failedAt[r] = "fetch")
            => /\ response[r].kind = "REJECTED"
               /\ response[r].status_code = 400

\* C6: on the URL path a failure to decode the fetched content, or of a
\* later step, reaches the caller as a structured error body
\* {error, status_code}, never as the fallback result and never as an
\* unstructured server error.
C6_UrlDecodeFailureStructured ==
    \A r \in Requests :
        (Done(r) /\ fetches[r] > 0 /\ failedAt[r] \in {"decode", "extract"})
            => response[r].kind = "REJECTED"

\* C7: in every 200 response the language field equals the language the
\* request supplied, the empty string included, and is "English" only when
\* the request omitted it.
C7_LanguagePassedThrough ==
    \A r \in Requests :
        (Done(r) /\ response[r].kind = "RESPONDED")
            => response[r].body.language =
                  (IF req[r].language = None THEN English ELSE req[r].language)

Analyzed == hAnalysis.classification # "pending"

PeakBonus == hFeatures.peak_density.d > 0
                /\ 100 * hFeatures.peak_density.n < hFeatures.peak_density.d

ZcrBonus == hFeatures.zcr.d > 0 /\ 20 * hFeatures.zcr.n < hFeatures.zcr.d

\* C8: analyze returns confidence 0.5, plus 0.2 when peak density < 0.01,
\* plus 0.2 when zero-crossing rate < 0.05, which lies in [0, 1]; the
\* classification is AI Generated exactly when the confidence is above
\* 0.55, hence Human exactly when neither bonus applies.
C8_AnalyzeScoring ==
    Analyzed
        => /\ hAnalysis.confidence =
                 50 + (IF PeakBonus THEN 20 ELSE 0) + (IF ZcrBonus THEN 20 ELSE 0)
           /\ hAnalysis.confidence \in 0..100
           /\ (hAnalysis.classification = "AI Generated") <=> (hAnalysis.confidence > 55)
           /\ (hAnalysis.classification = "Human") <=> (~PeakBonus /\ ~ZcrBonus)
           /\ hAnalysis.classification \in {"AI Generated", "Human"}

\* C8 witness: a vector with exactly one bonus (the zero-crossing rate is
\* NaN) has been analyzed as AI Generated with confidence 0.7.
C8_Witness ==
    /\ Analyzed
    /\ PeakBonus /\ ~ZcrBonus
    /\ hAnalysis.confidence = 70
    /\ hAnalysis.classification = "AI Generated"

Extracted == hFeatures.raised # "pending"

\* A float that equals 0.0 (NaN does not).
IsZero(q) == q.d > 0 /\ q.n = 0

\* The waveform handed to the extractor is empty or constant.
Degenerate ==
    LET x == ToMono(hAudio)
    IN  \A i \in 1..Len(x) : x[i] = x[1]

\* C9: for the empty waveform and for every constant waveform the
\* extractor returns energy 0, zero-crossing rate 0 and peak density 0
\* and does not raise.
C9_DegenerateWaveformAllZero ==
    (Extracted /\ Degenerate)
        => /\ hFeatures.raised = "no"
           /\ IsZero(hFeatures.energy)
           /\ IsZero(hFeatures.zcr)
           /\ IsZero(hFeatures.peak_density)

BothSet(r) ==
    InPredict(r) /\ IsSet(req[r].audio_url) /\ IsSet(req[r].audioBase64)

\* C10: a request with both audio_url and audioBase64 takes the URL path
\* only: the payload is never decoded, no temporary file is made for it,
\* and a failure is an error response, never the fallback result.
C10_UrlPathOnlyWhenBothSet ==
    \A r \in Requests :
        BothSet(r)
            => /\ b64calls[r] = 0
               /\ pc[r] # "inline_pipeline"
               /\ created[r] <= 1
               /\ \A f \in tmpFiles : f.owner = r => f.suffix = <<".", "w", "a", "v">>
               /\ (Done(r) /\ failedAt[r] # "none") => response[r].kind # "RESPONDED"
               /\ (Done(r) /\ response[r].kind = "RESPONDED")
                     => response[r].body.explanation.reasons
                           # <<"consistent spectral properties">>

\* C10 witness: a request with both fields whose fetched content could not
\* be decoded has ended in an error.
C10_Witness ==
    \E r \in Requests :
        /\ Done(r) /\ BothSet(r)
        /\ req[r].audioFormat # None
        /\ failedAt[r] = "decode"
        /\ response[r].kind # "RESPONDED"

====
